---- MODULE Spec2Model ----
(***************************************************************************)
(* Model of the runbook action dispatcher of prequel-dev/preq              *)
(* (package runbook: buildActions, filteredAction, slack/jira/exec actions *)
(* and Runbook).  Go values of type `any` are tagged records, Go maps are  *)
(* total functions over a closed key universe whose missing keys hold      *)
(* Absent, Go pointers and optional sections are sequences of length 0 or  *)
(* 1, and Go errors are records [kind, pos, detail].                       *)
(***************************************************************************)
EXTENDS Integers, Sequences, FiniteSets, TLC

VARIABLES file, report, pc, bi, actions, ai, ri, result, calls, effects,
          now, ctx, last, ev, creID, tpl, rendered,
          opts, disk, sys, loaded,
          fs, fs0, srcPath, dstPath, copied

vars == <<file, report, pc, bi, actions, ai, ri, result, calls, effects,
          now, ctx, last, ev, creID, tpl, rendered,
          opts, disk, sys, loaded,
          fs, fs0, srcPath, dstPath, copied>>

\* The clock, the context of the run and the latest Execute call.
callVars == <<now, ctx, last>>

runVars == <<file, report, pc, bi, actions, ai, ri, result, calls, effects,
             callVars>>

\* The variables of a dispatch run other than the position.
dispatchVars == <<file, report, bi, actions, ai, ri, result, calls, effects,
                  callVars>>

\* The variables of LoadConfig and ReadConfig: the options, the content of
\* the file or reader, the results of the system calls made so far and what
\* was returned.
configVars == <<opts, disk, sys, loaded>>

\* The variables of CopyFile: the files by path, now and before the call,
\* the two paths and what was returned.
copyVars == <<fs, fs0, srcPath, dstPath, copied>>

\* The variables of the specifications of the single functions.
pureVars == <<ev, creID, tpl, rendered, configVars, copyVars>>

\* Outside their specifications the variables of LoadConfig and CopyFile
\* are idle.
IdleConfig == opts = <<>> /\ disk = "" /\ sys = <<>> /\ loaded = <<>>
IdleCopy ==
  /\ fs = <<>>
  /\ fs0 = <<>>
  /\ srcPath = ""
  /\ dstPath = ""
  /\ copied = <<>>

\* Bounds of the model.
MaxActions == 2
MaxRecords == 2

SeqsUpTo(S, n) == UNION {[1..k -> S] : k \in 0..n}

(***************************************************************************)
(* Values of Go type `any` held by an event record (map[string]any).       *)
(***************************************************************************)
Absent == [t |-> "absent"]
NilAny == [t |-> "nil"]
Str(s) == [t |-> "string", s |-> s]
Num(n) == [t |-> "number", n |-> n]
MapV(m) == [t |-> "map", m |-> m]
StructV(f) == [t |-> "struct", f |-> f]
PtrV(p) == [t |-> "ptr", p |-> p]

\* The comma-ok forms: v, ok := m[k] and s, ok := v.(string).
HasKey(m, k) == m[k].t # "absent"
IsString(v) == v.t = "string"

(***************************************************************************)
(* extractCREID: the identifier a filter matches against.                  *)
(***************************************************************************)
\* reflect.ValueOf(cre), dereferenced once when it is a pointer; the result
\* is <<>> for an invalid reflect.Value (the element of a nil pointer).
Deref(v) == IF v.t = "ptr" THEN v.p ELSE <<v>>

StructID(cre) ==
  LET v == Deref(cre) IN
  IF Len(v) = 1 /\ v[1].t = "struct" /\ IsString(v[1].f.ID)
  THEN <<v[1].f.ID.s>>
  ELSE <<>>

extractCREID_NoPrecedence(e) ==
  IF IsString(e.id) THEN e.id.s
  ELSE IF HasKey(e, "cre") /\ e.cre.t = "map" /\ IsString(e.cre.m.id)
       THEN e.cre.m.id.s
  ELSE IF HasKey(e, "cre") /\ e.cre.t = "map" /\ IsString(e.cre.m.ID)
       THEN e.cre.m.ID.s
  ELSE IF HasKey(e, "cre") /\ StructID(e.cre) # <<>> THEN StructID(e.cre)[1]
  ELSE ""

extractCREID(e) ==
  IF HasKey(e, "cre") /\ e.cre.t = "map" /\ IsString(e.cre.m.id)
  THEN e.cre.m.id.s
  ELSE IF HasKey(e, "cre") /\ e.cre.t = "map" /\ IsString(e.cre.m.ID)
       THEN e.cre.m.ID.s
  ELSE IF HasKey(e, "cre") /\ StructID(e.cre) # <<>> THEN StructID(e.cre)[1]
  ELSE IF IsString(e.id) THEN e.id.s
  ELSE ""

(***************************************************************************)
(* The event records the extraction is checked on: every combination of a  *)
(* `cre` value and a top-level `id` value.                                 *)
(***************************************************************************)
IdVals == {Absent, NilAny, Str(""), Str("a1"), Str("b1"), Num(7)}
TopIdVals == {Absent, Str(""), Str("a2"), Num(7)}
CreMaps == {MapV([id |-> i, ID |-> j]) : i \in IdVals, j \in IdVals}
CreStructs == {StructV([ID |-> j]) : j \in {Absent, Str(""), Str("b1"), Num(7)}}
CreVals == {Absent, NilAny, Str("a1"), PtrV(<<>>)}
             \cup CreMaps \cup CreStructs \cup {PtrV(<<s>>) : s \in CreStructs}
ExtractEvents ==
  {[cre |-> c, id |-> i, Reason |-> Absent] : c \in CreVals, i \in TopIdVals}

(***************************************************************************)
(* Go errors.  pos is <<i>> when the message names entry index i (0-based, *)
(* as fmt.Errorf prints it) and <<>> when the message names no entry.      *)
(***************************************************************************)
NoErr == [kind |-> "nil", pos |-> <<>>, detail |-> ""]
Err(kind, detail) == [kind |-> kind, pos |-> <<>>, detail |-> detail]
ErrAt_OneBased(kind, i, detail) ==
  [kind |-> kind, pos |-> <<i + 1>>, detail |-> detail]

ErrAt(kind, i, detail) == [kind |-> kind, pos |-> <<i>>, detail |-> detail]

(***************************************************************************)
(* regexp: the patterns of the model and the language of each over the     *)
(* identifiers of the model.  "(" does not compile; "" and ".*" match      *)
(* every string, the empty one included; "^a" matches a leading a.         *)
(***************************************************************************)
RegexpCompiles(p) == p # "("

MatchString(re, s) ==
  CASE re = "^a" -> s \in {"a1", "a2"}
    [] re = ".*" -> TRUE
    [] re = "" -> TRUE
    [] OTHER -> FALSE

(***************************************************************************)
(* text/template: the template texts of the model, their parse and their   *)
(* execution.  A parsed template is a sequence of nodes: literal text, a   *)
(* call of the registered function `field` on dot, or a call of `field`    *)
(* with too few arguments (accepted by Parse, refused by Execute).         *)
(***************************************************************************)
TmplEmpty == ""
TmplText == "CRE fired"
TmplField == "{{ field . \"Reason\" }}"
TmplReason == "Reason: {{ field . \"Reason\" }}"
TmplArity == "{{ field . }}"
TmplUnclosed == "{{"
TmplNoFunc == "{{ nofunc . }}"

TextNode(s) == [k |-> "text", s |-> s, name |-> ""]
FieldNode(name) == [k |-> "field", s |-> "", name |-> name]
ArityNode == [k |-> "arity", s |-> "", name |-> ""]

\* template.New(..).Funcs(funcMap()).Parse(text)
Parse(text) ==
  CASE text = TmplEmpty -> [err |-> NoErr, t |-> <<>>]
    [] text = TmplText -> [err |-> NoErr, t |-> <<TextNode("CRE fired")>>]
    [] text = TmplField -> [err |-> NoErr, t |-> <<FieldNode("Reason")>>]
    [] text = TmplReason ->
         [err |-> NoErr, t |-> <<TextNode("Reason: "), FieldNode("Reason")>>]
    [] text = TmplArity -> [err |-> NoErr, t |-> <<ArityNode>>]
    [] text = TmplUnclosed ->
         [err |-> Err("template_parse", "unclosed action"), t |-> <<>>]
    [] OTHER ->
         [err |-> Err("template_parse", "function not defined"), t |-> <<>>]

\* funcMap()["field"] applied to an event record (a map[string]any).
field(obj, name) ==
  IF obj.t = "nil" THEN NilAny
  ELSE IF obj.t = "map"
       THEN IF name \in DOMAIN obj.m /\ HasKey(obj.m, name)
            THEN obj.m[name] ELSE NilAny
  ELSE LET v == Deref(obj) IN
       IF Len(v) = 1 /\ v[1].t = "struct" /\ name \in DOMAIN v[1].f
          /\ v[1].f[name].t # "absent"
       THEN v[1].f[name] ELSE NilAny

\* How text/template prints the value of an action.
PrintValue(v) ==
  CASE v.t = "string" -> v.s
    [] v.t = "number" -> ToString(v.n)
    [] v.t \in {"nil", "absent"} -> "<no value>"
    [] OTHER -> "map[]"

RECURSIVE ExecNodes(_, _)
ExecNodes(t, e) ==
  IF t = <<>> THEN [err |-> NoErr, out |-> ""]
  ELSE IF t[1].k = "arity"
       THEN [err |-> Err("template_exec", "wrong number of args for field"),
             out |-> ""]
  ELSE LET rest == ExecNodes(Tail(t), e)
           here == IF t[1].k = "text" THEN t[1].s
                   ELSE PrintValue(field(MapV(e), t[1].name))
       IN IF rest.err # NoErr THEN rest
          ELSE [err |-> NoErr, out |-> here \o rest.out]

\* executeTemplate(&out, tmpl, data)
executeTemplate(tmpl, e) == ExecNodes(tmpl, e)

(***************************************************************************)
(* Configuration: slackConfig, jiraConfig, execConfig and actionConfig.    *)
(* The optional sections of an entry (pointers to a config) are <<>> when  *)
(* nil and <<cfg>> when present.                                           *)
(***************************************************************************)
SlackGood ==
  [WebhookURL |-> "https://example/hook", MessageTemplate |-> TmplReason]

JiraGood ==
  [WebhookURL |-> "https://example/jira", Secret |-> "abc123", SecretEnv |-> "",
   SummaryTemplate |-> TmplText, DescriptionTemplate |-> TmplReason,
   ProjectKey |-> "PREQ"]

ExecGood ==
  [Path |-> "/usr/local/bin/notify.sh", Args |-> <<TmplText, TmplReason>>]

Entry(type, regex, slack, jira, exec) ==
  [Type |-> type, Regex |-> regex, Slack |-> slack, Jira |-> jira, Exec |-> exec]

\* os.Getenv on the process environment of the model.
Getenv(name) == IF name = "JIRA_TOKEN" THEN "envtok" ELSE ""

\* The timeout of the http.Client of a webhook action, in seconds.
ClientTimeout == 5

(***************************************************************************)
(* Constructors.  Each returns [err, a]: a is <<action>> on success and    *)
(* <<>> (nil) on failure.                                                  *)
(***************************************************************************)
Built(a) == [err |-> NoErr, a |-> <<a>>]
Failed(e) == [err |-> e, a |-> <<>>]

newSlackAction(cfg) ==
  IF cfg.WebhookURL = ""
  THEN Failed(Err("required_field", "slack.webhook_url is required"))
  ELSE IF cfg.MessageTemplate = ""
  THEN Failed(Err("required_field", "slack.message_template is required"))
  ELSE LET t == Parse(cfg.MessageTemplate) IN
       IF t.err # NoErr THEN Failed(t.err)
       ELSE Built([kind |-> "slack", cfg |-> cfg, tmpl |-> t.t,
                   timeout |-> ClientTimeout])

\* if cfg.Secret == "" && cfg.SecretEnv != "" { cfg.Secret = os.Getenv(..) }
resolveSecret_EnvFirst(c) ==
  IF c.SecretEnv # "" THEN Getenv(c.SecretEnv) ELSE c.Secret

resolveSecret(c) ==
  IF c.Secret = "" /\ c.SecretEnv # "" THEN Getenv(c.SecretEnv) ELSE c.Secret

newJiraAction(c) ==
  IF c.WebhookURL = ""
  THEN Failed(Err("required_field", "jira.webhook_url is required"))
  ELSE IF c.SummaryTemplate = ""
  THEN Failed(Err("required_field", "jira.summary_template is required"))
  ELSE IF c.ProjectKey = ""
  THEN Failed(Err("required_field", "jira.project_key is required"))
  ELSE LET st == Parse(c.SummaryTemplate)
           dt == Parse(c.DescriptionTemplate)
           cfg == [c EXCEPT !.Secret = resolveSecret(c)]
       IN IF st.err # NoErr THEN Failed(st.err)
          ELSE IF dt.err # NoErr THEN Failed(dt.err)
          ELSE IF cfg.Secret = ""
          THEN Failed(Err("secret_missing", "jira secret missing"))
          ELSE Built([kind |-> "jira", cfg |-> cfg, summaryTmpl |-> st.t,
                      descTmpl |-> dt.t, timeout |-> ClientTimeout])

newExecAction_NoPathCheck(cfg) == Built([kind |-> "exec", cfg |-> cfg])

newExecAction(cfg) ==
  IF cfg.Path = ""
  THEN Failed(Err("required_field", "exec.path is required"))
  ELSE Built([kind |-> "exec", cfg |-> cfg])

(***************************************************************************)
(* buildActions: one iteration of its loop, on entry c at index i          *)
(* (0-based).  Returns [err, a] like the constructors.                     *)
(***************************************************************************)
\* The switch on c.Type: the section the type names must be present; the
\* other sections are not looked at.
Construct(c, i) ==
  CASE c.Type = "slack" ->
         IF c.Slack = <<>>
         THEN Failed(ErrAt("missing_section", i, "missing slack section"))
         ELSE newSlackAction(c.Slack[1])
    [] c.Type = "jira" ->
         IF c.Jira = <<>>
         THEN Failed(ErrAt("missing_section", i, "missing jira section"))
         ELSE newJiraAction(c.Jira[1])
    [] c.Type = "exec" ->
         IF c.Exec = <<>>
         THEN Failed(ErrAt("missing_section", i, "missing exec section"))
         ELSE newExecAction(c.Exec[1])
    [] OTHER -> Failed(ErrAt("unknown_type", i, "unknown action type"))

\* if c.Regex != ""
WantsFilter_Always(c) == TRUE

WantsFilter(c) == c.Regex # ""

buildEntry(c, i) ==
  LET r == Construct(c, i) IN
  IF r.err # NoErr THEN Failed(r.err)
  ELSE IF WantsFilter(c)
       THEN IF ~RegexpCompiles(c.Regex)
            THEN Failed(ErrAt("invalid_regex", i, "invalid cre_id_regex"))
            ELSE Built([kind |-> "filtered", pattern |-> <<c.Regex>>,
                        inner |-> r.a[1]])
       ELSE Built(r.a[1])

(***************************************************************************)
(* The context of a run (the ctx argument of Runbook) and the clock.       *)
(* A context has a deadline or none (<<>>), can be cancelled from outside  *)
(* or not, and is or is not cancelled yet.  Time is in seconds.            *)
(***************************************************************************)
Context(deadline, cancellable) ==
  [deadline |-> deadline, cancellable |-> cancellable, cancelled |-> FALSE]

\* context.Background()
Background == Context(<<>>, FALSE)

Min(a, b) == IF a <= b THEN a ELSE b

\* The context as one Execute call that starts at time t finds it: whether
\* it is done already, the time left to its deadline (<<>> when it has
\* none), and whether a cancellation can arrive during the call; t is the
\* time since the actions were built.
CallCtx(c, t) ==
  [at |-> t,
   done |-> c.cancelled \/ (c.deadline # <<>> /\ c.deadline[1] <= t),
   left |-> IF c.deadline = <<>> THEN <<>>
            ELSE <<IF c.deadline[1] <= t THEN 0 ELSE c.deadline[1] - t>>,
   cancellable |-> c.cancellable /\ ~c.cancelled]

(***************************************************************************)
(* What the outside world does during one Execute call.  An HTTP exchange  *)
(* takes dur seconds and then fails (neterr) or completes with a status    *)
(* code and a response body; a process fails to start (spawnerr) or runs   *)
(* dur seconds and exits with a code; or, dur seconds into the call, the   *)
(* context is cancelled (cancel).  A process has no time limit of its own, *)
(* so a long-running process is an outcome of its own only when the        *)
(* context has a deadline.                                                 *)
(***************************************************************************)
Outcome(k, code, body, dur) == [k |-> k, code |-> code, body |-> body, dur |-> dur]

CancelOutcomes(cx) ==
  IF cx.cancellable /\ ~cx.done THEN {Outcome("cancel", 0, "", 2)} ELSE {}

HTTPOutcomes(cx) ==
  {Outcome("neterr", 0, "", 3),
   Outcome("status", 200, "ok", 3),
   Outcome("status", 299, "", 3),
   Outcome("status", 300, "moved", 3),
   Outcome("status", 500, "", 3),
   Outcome("status", 500, "boom", 3),
   Outcome("status", 200, "ok", 6)}
    \cup CancelOutcomes(cx)

ProcOutcomes(cx) ==
  {Outcome("spawnerr", 0, "", 0),
   Outcome("exit", 0, "", 3),
   Outcome("exit", 1, "", 3)}
    \cup (IF cx.left # <<>> THEN {Outcome("exit", 0, "", 6)} ELSE {})
    \cup CancelOutcomes(cx)

\* Side effects: an HTTP request sent, a process started.
HTTPPost(url, body, token) ==
  [kind |-> "http", target |-> url, payload |-> body, token |-> token,
   args |-> <<>>]
Process(path, args, stdin) ==
  [kind |-> "process", target |-> path, payload |-> stdin, token |-> <<>>,
   args |-> args]

\* The result of an Execute call: its error, the side effects it had,
\* whether a concrete (slack, jira, exec) action's Execute ran, the time the
\* call took and whether the context was cancelled during it.
RanFor(err, fx, took, cancel) ==
  [err |-> err, fx |-> fx, invoked |-> TRUE, took |-> took, cancel |-> cancel]
Ran(err, fx) == RanFor(err, fx, 0, FALSE)
Skipped ==
  [err |-> NoErr, fx |-> <<>>, invoked |-> FALSE, took |-> 0, cancel |-> FALSE]

\* The time an http.Client with the given Timeout lets a request that
\* carries the context cx run: the Timeout counts from the start of the
\* request, and the context's deadline ends it earlier.
HTTPLimit_FromConstruction(cx, timeout) ==
  LET own == IF timeout <= cx.at THEN 0 ELSE timeout - cx.at IN
  IF cx.left = <<>> THEN own ELSE Min(own, cx.left[1])

HTTPLimit(cx, timeout) ==
  IF cx.left = <<>> THEN timeout ELSE Min(timeout, cx.left[1])

\* httpc.Do(req) for a request made with http.NewRequestWithContext(ctx, ..):
\* [err, sent, took, cancel].  A context that is done fails the request
\* before it is sent; a request that runs into its limit or whose context
\* is cancelled is aborted with an error.
httpDo(cx, timeout, o) ==
  IF cx.done
  THEN [err |-> "context done", sent |-> FALSE, took |-> 0, cancel |-> FALSE]
  ELSE LET limit == HTTPLimit(cx, timeout) IN
       IF o.dur > limit
       THEN [err |-> "deadline exceeded", sent |-> TRUE, took |-> limit,
             cancel |-> FALSE]
       ELSE IF o.k = "cancel"
       THEN [err |-> "context canceled", sent |-> TRUE, took |-> o.dur,
             cancel |-> TRUE]
       ELSE IF o.k = "neterr"
       THEN [err |-> "connection refused", sent |-> TRUE, took |-> o.dur,
             cancel |-> FALSE]
       ELSE [err |-> "", sent |-> TRUE, took |-> o.dur, cancel |-> FALSE]

\* if err != nil { return fmt.Errorf("slack post: %w", err) }
\* if resp.StatusCode >= 300 { return fmt.Errorf("slack post failed: %s - %s",
\*                                               resp.Status, respBody) }
\* (the status line is modelled by its code, the dash of the format by "-").
PostResult_Above300(who, d, o) ==
  IF d.err # "" THEN Err("http", who \o " post: " \o d.err)
  ELSE IF o.code > 300
       THEN Err("status", who \o " post failed: " \o ToString(o.code)
                            \o " - " \o o.body)
       ELSE NoErr

PostResult(who, d, o) ==
  IF d.err # "" THEN Err("http", who \o " post: " \o d.err)
  ELSE IF o.code >= 300
       THEN Err("status", who \o " post failed: " \o ToString(o.code)
                            \o " - " \o o.body)
       ELSE NoErr

\* The request and the response of a webhook action: one POST of body.
Post_Retry(cx, a, who, body, token, o) ==
  LET d == httpDo(cx, a.timeout, o)
      req == HTTPPost(a.cfg.WebhookURL, body, token)
  IN RanFor(PostResult(who, d, o),
            IF ~d.sent THEN <<>>
            ELSE IF PostResult(who, d, o) # NoErr THEN <<req, req>>
            ELSE <<req>>,
            d.took, d.cancel)

Post(cx, a, who, body, token, o) ==
  LET d == httpDo(cx, a.timeout, o) IN
  RanFor(PostResult(who, d, o),
         IF d.sent THEN <<HTTPPost(a.cfg.WebhookURL, body, token)>> ELSE <<>>,
         d.took, d.cancel)

slackExecute(cx, a, e, o) ==
  LET msg == executeTemplate(a.tmpl, e) IN
  IF msg.err # NoErr THEN Ran(msg.err, <<>>)
  ELSE Post(cx, a, "slack", [text |-> msg.out], <<>>, o)

adfParagraph_SkipEmpty(txt) ==
  [type |-> "doc", version |-> 1,
   content |-> IF txt = "" THEN <<>>
               ELSE <<[type |-> "paragraph",
                       content |-> <<[type |-> "text", text |-> txt]>>]>>]

adfParagraph(txt) ==
  [type |-> "doc", version |-> 1,
   content |-> <<[type |-> "paragraph",
                  content |-> <<[type |-> "text", text |-> txt]>>]>>]

\* if j.cfg.Secret != "" { req.Header.Set("X-Automation-Webhook-Token", ..) }
TokenHeader_Never(cfg) == <<>>

TokenHeader(cfg) == IF cfg.Secret # "" THEN <<cfg.Secret>> ELSE <<>>

jiraExecute_PostFirst(cx, a, e, o) ==
  LET summary == executeTemplate(a.summaryTmpl, e)
      desc == executeTemplate(a.descTmpl, e)
  IN IF summary.err # NoErr THEN Ran(summary.err, <<>>)
     ELSE LET r == Post(cx, a, "jira",
                        [project |-> [key |-> a.cfg.ProjectKey],
                         summary |-> summary.out,
                         description |-> adfParagraph(desc.out),
                         issuetype |-> [name |-> "Bug"]],
                        TokenHeader(a.cfg), o)
          IN IF desc.err # NoErr THEN RanFor(desc.err, r.fx, r.took, r.cancel)
             ELSE r

jiraExecute(cx, a, e, o) ==
  LET summary == executeTemplate(a.summaryTmpl, e)
      desc == executeTemplate(a.descTmpl, e)
  IN IF summary.err # NoErr THEN Ran(summary.err, <<>>)
     ELSE IF desc.err # NoErr THEN Ran(desc.err, <<>>)
     ELSE Post(cx, a, "jira",
               [project |-> [key |-> a.cfg.ProjectKey],
                summary |-> summary.out,
                description |-> adfParagraph(desc.out),
                issuetype |-> [name |-> "Bug"]],
               TokenHeader(a.cfg), o)

\* The loop of execAction.Execute over e.cfg.Args: each argument template is
\* parsed and then executed, and the first failure ends the loop.
RECURSIVE RenderArgs(_, _)
RenderArgs(args, e) ==
  IF args = <<>> THEN [err |-> NoErr, out |-> <<>>]
  ELSE LET tmpl == Parse(args[1]) IN
       IF tmpl.err # NoErr THEN [err |-> tmpl.err, out |-> <<>>]
       ELSE LET arg == executeTemplate(tmpl.t, e) IN
            IF arg.err # NoErr THEN [err |-> arg.err, out |-> <<>>]
            ELSE LET rest == RenderArgs(Tail(args), e) IN
                 IF rest.err # NoErr THEN rest
                 ELSE [err |-> NoErr, out |-> <<arg.out>> \o rest.out]

\* cmd.Run() of a command made with exec.CommandContext(ctx, ..):
\* [err, spawned, took, cancel].  A context that is done fails the start; a
\* process that cannot be started is an error; a process whose context ends
\* while it runs is killed, which is an error; otherwise the exit code
\* decides.
cmdRun_IgnoresContext(cx, o) ==
  IF o.k = "spawnerr"
  THEN [err |-> "start failed", spawned |-> FALSE, took |-> 0, cancel |-> FALSE]
  ELSE [err |-> IF o.k = "exit" /\ o.code # 0
                THEN "exit status " \o ToString(o.code) ELSE "",
        spawned |-> TRUE, took |-> o.dur, cancel |-> o.k = "cancel"]

cmdRun_IgnoresExit(cx, o) ==
  IF cx.done
  THEN [err |-> "context done", spawned |-> FALSE, took |-> 0, cancel |-> FALSE]
  ELSE IF o.k = "spawnerr"
  THEN [err |-> "start failed", spawned |-> FALSE, took |-> 0, cancel |-> FALSE]
  ELSE IF cx.left # <<>> /\ o.dur > cx.left[1]
  THEN [err |-> "signal: killed", spawned |-> TRUE, took |-> cx.left[1],
        cancel |-> FALSE]
  ELSE IF o.k = "cancel"
  THEN [err |-> "signal: killed", spawned |-> TRUE, took |-> o.dur,
        cancel |-> TRUE]
  ELSE [err |-> "", spawned |-> TRUE, took |-> o.dur, cancel |-> FALSE]

cmdRun(cx, o) ==
  IF cx.done
  THEN [err |-> "context done", spawned |-> FALSE, took |-> 0, cancel |-> FALSE]
  ELSE IF o.k = "spawnerr"
  THEN [err |-> "start failed", spawned |-> FALSE, took |-> 0, cancel |-> FALSE]
  ELSE IF cx.left # <<>> /\ o.dur > cx.left[1]
  THEN [err |-> "signal: killed", spawned |-> TRUE, took |-> cx.left[1],
        cancel |-> FALSE]
  ELSE IF o.k = "cancel"
  THEN [err |-> "signal: killed", spawned |-> TRUE, took |-> o.dur,
        cancel |-> TRUE]
  ELSE [err |-> IF o.code # 0 THEN "exit status " \o ToString(o.code) ELSE "",
        spawned |-> TRUE, took |-> o.dur, cancel |-> FALSE]

\* raw, err := json.Marshal(cre): the JSON object of a record has the keys
\* the record holds, each with its value; it never fails on the values of
\* the model.
Marshal(e) == {<<k, e[k]>> : k \in {j \in DOMAIN e : HasKey(e, j)}}

execExecute(cx, a, e, o) ==
  LET args == RenderArgs(a.cfg.Args, e) IN
  IF args.err # NoErr THEN Ran(args.err, <<>>)
  ELSE LET r == cmdRun(cx, o) IN
       RanFor(IF r.err # "" THEN Err("process", r.err) ELSE NoErr,
              IF r.spawned THEN <<Process(a.cfg.Path, args.out, Marshal(e))>>
              ELSE <<>>,
              r.took, r.cancel)

concreteExecute(cx, a, e, o) ==
  CASE a.kind = "slack" -> slackExecute(cx, a, e, o)
    [] a.kind = "jira" -> jiraExecute(cx, a, e, o)
    [] a.kind = "exec" -> execExecute(cx, a, e, o)

\* id := extractCREID(ev); id != "" && f.pattern.MatchString(id)
FilterPasses_NoEmptyCheck(re, e) == MatchString(re, extractCREID(e))

FilterPasses(re, e) ==
  LET id == extractCREID(e) IN id # "" /\ MatchString(re, id)

filteredExecute(cx, f, e, o) ==
  IF f.pattern = <<>> THEN concreteExecute(cx, f.inner, e, o)
  ELSE IF FilterPasses(f.pattern[1], e) THEN concreteExecute(cx, f.inner, e, o)
  ELSE Skipped

\* a.Execute(ctx, cre) through the Action interface
Execute(cx, a, e, o) ==
  IF a.kind = "filtered" THEN filteredExecute(cx, a, e, o)
  ELSE concreteExecute(cx, a, e, o)

\* The action (the receiver of Execute, a pointer) and the record (a map,
\* passed by reference) after a call of Execute: the methods read their
\* configuration, secret, pattern and templates and the record, build the
\* argument list and the payload in fresh values, and write to none of them.
receiverAfter_RenderInPlace(a, e) ==
  LET inner == IF a.kind = "filtered" THEN a.inner ELSE a
      runs == \/ a.kind # "filtered"
              \/ a.pattern = <<>>
              \/ FilterPasses(a.pattern[1], e)
      after == IF inner.kind = "exec" /\ runs
                  /\ RenderArgs(inner.cfg.Args, e).err = NoErr
               THEN [inner EXCEPT !.cfg.Args = RenderArgs(inner.cfg.Args, e).out]
               ELSE inner
  IN IF a.kind = "filtered" THEN [a EXCEPT !.inner = after] ELSE after

receiverAfter(a, e) == a

recordAfter(a, e) == e

ConcreteKind(a) == IF a.kind = "filtered" THEN a.inner.kind ELSE a.kind

OutcomesOf(a, cx) ==
  IF ConcreteKind(a) = "exec" THEN ProcOutcomes(cx) ELSE HTTPOutcomes(cx)

(***************************************************************************)
(* Inputs.  A configuration file is unreadable, not YAML, or a list of     *)
(* entries; a report is a list of event records.                           *)
(***************************************************************************)
Opt(S) == {<<>>} \cup {<<x>> : x \in S}

SlackCfgs ==
  {SlackGood,
   [SlackGood EXCEPT !.WebhookURL = ""],
   [SlackGood EXCEPT !.MessageTemplate = ""],
   [SlackGood EXCEPT !.MessageTemplate = TmplUnclosed],
   [SlackGood EXCEPT !.MessageTemplate = TmplArity]}

JiraCfgs ==
  {JiraGood,
   [JiraGood EXCEPT !.WebhookURL = ""],
   [JiraGood EXCEPT !.SummaryTemplate = ""],
   [JiraGood EXCEPT !.ProjectKey = ""],
   [JiraGood EXCEPT !.SummaryTemplate = TmplNoFunc],
   [JiraGood EXCEPT !.DescriptionTemplate = TmplUnclosed],
   [JiraGood EXCEPT !.DescriptionTemplate = ""],
   [JiraGood EXCEPT !.Secret = ""],
   [JiraGood EXCEPT !.SecretEnv = "JIRA_TOKEN"],
   [JiraGood EXCEPT !.Secret = "", !.SecretEnv = "JIRA_TOKEN"],
   [JiraGood EXCEPT !.Secret = "", !.SecretEnv = "JIRA_UNSET"]}

ExecCfgs ==
  {ExecGood,
   [ExecGood EXCEPT !.Path = ""],
   [ExecGood EXCEPT !.Args = <<>>],
   [ExecGood EXCEPT !.Args = <<TmplText, TmplUnclosed>>]}

\* Entries for the factory alone: every variant of the section the type
\* names (nil included), entries with sections of other types, unknown types.
FactoryEntries ==
  {Entry("slack", r, s, <<>>, <<>>) : r \in {"", "^a", "("}, s \in Opt(SlackCfgs)}
    \cup {Entry("jira", r, <<>>, j, <<>>) : r \in {"", "("}, j \in Opt(JiraCfgs)}
    \cup {Entry("exec", r, <<>>, <<>>, x) : r \in {"", "("}, x \in Opt(ExecCfgs)}
    \cup {Entry("slack", "", <<SlackGood>>, <<JiraGood>>, <<>>),
          Entry("slack", "", <<>>, <<JiraGood>>, <<>>),
          Entry("jira", "", <<SlackGood>>, <<JiraGood>>, <<ExecGood>>),
          Entry("exec", "", <<SlackGood>>, <<>>, <<ExecGood>>),
          Entry("email", "", <<>>, <<>>, <<>>),
          Entry("email", "^a", <<SlackGood>>, <<>>, <<>>),
          Entry("", "", <<>>, <<>>, <<ExecGood>>)}

\* Entries for whole runs: actions of each kind, with and without a filter,
\* actions whose templates fail at dispatch, and entries the factory refuses.
RunEntries ==
  {Entry("slack", "", <<SlackGood>>, <<>>, <<>>),
   Entry("slack", "^a", <<SlackGood>>, <<>>, <<>>),
   Entry("jira", ".*", <<>>, <<JiraGood>>, <<>>),
   Entry("exec", "", <<>>, <<>>, <<ExecGood>>),
   Entry("exec", "", <<>>, <<>>,
         <<[ExecGood EXCEPT !.Args = <<TmplText, TmplUnclosed>>]>>),
   Entry("slack", "", <<[SlackGood EXCEPT !.MessageTemplate = TmplArity]>>,
         <<>>, <<>>),
   Entry("slack", "", <<[SlackGood EXCEPT !.WebhookURL = ""]>>, <<>>, <<>>),
   Entry("email", "", <<>>, <<>>, <<>>),
   Entry("exec", "(", <<>>, <<>>, <<ExecGood>>)}

\* The issue-tracker entries of a run: a secret in the file and a filter, a
\* secret from the environment and no description, and a description that
\* fails to render.
JiraEntries ==
  {Entry("jira", ".*", <<>>, <<JiraGood>>, <<>>),
   Entry("jira", "", <<>>,
         <<[JiraGood EXCEPT !.Secret = "", !.SecretEnv = "JIRA_TOKEN",
                            !.DescriptionTemplate = TmplEmpty]>>, <<>>),
   Entry("jira", "", <<>>,
         <<[JiraGood EXCEPT !.DescriptionTemplate = TmplArity]>>, <<>>)}

Unreadable == [status |-> "unreadable", Actions |-> <<>>]
NotYAML == [status |-> "notyaml", Actions |-> <<>>]
Files(entries) ==
  {Unreadable, NotYAML}
    \cup {[status |-> "ok", Actions |-> as] : as \in SeqsUpTo(entries, MaxActions)}

Event(cre, id, reason) == [cre |-> cre, id |-> id, Reason |-> reason]

\* Events whose identifier is a1 (from cre.id), b1 (from cre.ID, against a
\* top-level id a2) and empty.
RunEvents ==
  {Event(MapV([id |-> Str("a1"), ID |-> Absent]), Absent, Str("disk full")),
   Event(MapV([id |-> Absent, ID |-> Str("b1")]), Str("a2"), Absent),
   Event(Absent, Absent, Str("oom"))}

NoEvent == Event(Absent, Absent, Absent)

(***************************************************************************)
(* Runbook(ctx, cfgPath, report), step by step.                            *)
(* pc: "read" (buildActions reads the file), "build" (its loop over the    *)
(* entries), "run" (the loops of Runbook), "done" (Runbook returned).      *)
(* result is what Runbook returned; calls is the log of Execute calls and  *)
(* effects the log of side effects, each tagged with its call.             *)
(***************************************************************************)
Pending == [kind |-> "pending", pos |-> <<>>, detail |-> ""]

InitRun(files, ctxs) ==
  /\ file \in files
  /\ report \in SeqsUpTo(RunEvents, MaxRecords)
  /\ pc = "read"
  /\ bi = 0
  /\ actions = <<>>
  /\ ai = 0
  /\ ri = 0
  /\ result = Pending
  /\ calls = <<>>
  /\ effects = <<>>
  /\ now = 0
  /\ ctx \in ctxs
  /\ last = <<>>
  /\ ev = NoEvent
  /\ creID = <<>>
  /\ tpl = TmplEmpty
  /\ rendered = <<>>
  /\ IdleConfig
  /\ IdleCopy

\* Runs under a context that never ends, such as context.Background().
Init == InitRun(Files(RunEntries), {Background})

\* os.ReadFile and yaml.Unmarshal
ReadConfig ==
  /\ pc = "read"
  /\ IF file.status = "ok"
     THEN /\ pc' = "build"
          /\ bi' = 0
          /\ UNCHANGED result
     ELSE /\ pc' = "done"
          /\ result' = Err(file.status, "")
          /\ UNCHANGED bi
  /\ UNCHANGED <<file, report, actions, ai, ri, calls, effects, callVars,
                 pureVars>>

\* One iteration of the loop of buildActions: on an error the function
\* returns nil and the error, and Runbook returns that error.
BuildEntry_SkipBad ==
  /\ pc = "build"
  /\ bi < Len(file.Actions)
  /\ LET r == buildEntry(file.Actions[bi + 1], bi) IN
     /\ actions' = IF r.err # NoErr THEN actions ELSE Append(actions, r.a[1])
     /\ bi' = bi + 1
     /\ UNCHANGED <<result, pc>>
  /\ UNCHANGED <<file, report, ai, ri, calls, effects, callVars, pureVars>>

BuildEntry ==
  /\ pc = "build"
  /\ bi < Len(file.Actions)
  /\ LET r == buildEntry(file.Actions[bi + 1], bi) IN
     IF r.err # NoErr
     THEN /\ actions' = <<>>
          /\ result' = r.err
          /\ pc' = "done"
          /\ UNCHANGED bi
     ELSE /\ actions' = Append(actions, r.a[1])
          /\ bi' = bi + 1
          /\ UNCHANGED <<result, pc>>
  /\ UNCHANGED <<file, report, ai, ri, calls, effects, callVars, pureVars>>

\* return actions, nil
BuildDone ==
  /\ pc = "build"
  /\ bi = Len(file.Actions)
  /\ pc' = "run"
  /\ ai' = 0
  /\ ri' = 0
  /\ UNCHANGED <<file, report, bi, actions, result, calls, effects, callVars,
                 pureVars>>

\* if err := a.Execute(ctx, cre); err != nil { return err }
Aborts_Never(err) == FALSE

Aborts(err) == err # NoErr

\* The inner loop moves to the next record.
NextRecord_ActionFirst(i, j) ==
  IF i + 1 < Len(actions) THEN [ai |-> i + 1, ri |-> j]
  ELSE [ai |-> 0, ri |-> j + 1]

NextRecord_Skip(i, j) == [ai |-> i, ri |-> j + 2]

NextRecord(i, j) == [ai |-> i, ri |-> j + 1]

\* One Execute call of the inner loop of Runbook.
RunbookExecute ==
  /\ pc = "run"
  /\ ai < Len(actions)
  /\ ri < Len(report)
  /\ \E o \in OutcomesOf(actions[ai + 1], CallCtx(ctx, now)) :
       LET cx == CallCtx(ctx, now)
           r == Execute(cx, actions[ai + 1], report[ri + 1], o)
           n == Len(calls) + 1
       IN /\ calls' = Append(calls, [a |-> ai, r |-> ri, err |-> r.err,
                                     invoked |-> r.invoked,
                                     cancel |-> r.cancel])
          /\ now' = now + r.took
          /\ ctx' = [ctx EXCEPT !.cancelled = @ \/ r.cancel]
          /\ last' = <<[cx |-> cx, o |-> o, took |-> r.took,
                        cancel |-> r.cancel]>>
          /\ effects' = effects \o [k \in 1..Len(r.fx) |->
                                      [call |-> n, fx |-> r.fx[k]]]
          /\ actions' = [actions EXCEPT ![ai + 1] =
                                   receiverAfter(@, report[ri + 1])]
          /\ report' = [report EXCEPT ![ri + 1] =
                                  recordAfter(actions[ai + 1], @)]
          /\ IF Aborts(r.err)
             THEN /\ result' = r.err
                  /\ pc' = "done"
                  /\ UNCHANGED <<ai, ri>>
             ELSE /\ ai' = NextRecord(ai, ri).ai
                  /\ ri' = NextRecord(ai, ri).ri
                  /\ UNCHANGED <<result, pc>>
  /\ UNCHANGED <<file, bi, pureVars>>

\* The inner loop is over: the outer loop moves to the next action.
NextAction ==
  /\ pc = "run"
  /\ ai < Len(actions)
  /\ ri >= Len(report)
  /\ ai' = ai + 1
  /\ ri' = 0
  /\ UNCHANGED <<file, report, pc, bi, actions, result, calls, effects,
                 callVars, pureVars>>

\* return nil
Return ==
  /\ pc = "run"
  /\ ai >= Len(actions)
  /\ pc' = "done"
  /\ result' = NoErr
  /\ UNCHANGED <<file, report, bi, actions, ai, ri, calls, effects, callVars,
                 pureVars>>

Next == ReadConfig \/ BuildEntry \/ BuildDone \/ RunbookExecute \/ NextAction
          \/ Return

Spec == Init /\ [][Next]_vars

(***************************************************************************)
(* Runbook under contexts that end: with a deadline, and cancellable from  *)
(* outside, between two Execute calls (Cancel) or during one (the cancel   *)
(* outcome of a call).                                                     *)
(***************************************************************************)
TimedContexts ==
  {Context(d, c) : d \in {<<>>, <<4>>, <<7>>}, c \in BOOLEAN}

TimedEntries ==
  JiraEntries
    \cup {Entry("slack", "", <<SlackGood>>, <<>>, <<>>),
          Entry("exec", "", <<>>, <<>>, <<ExecGood>>),
          Entry("slack", "", <<[SlackGood EXCEPT !.WebhookURL = ""]>>,
                <<>>, <<>>)}

TimedEvents ==
  {Event(MapV([id |-> Str("a1"), ID |-> Absent]), Absent, Str("disk full"))}

InitTimed ==
  /\ InitRun(Files(TimedEntries), TimedContexts)
  /\ report \in SeqsUpTo(TimedEvents, MaxRecords)

\* The owner of the context cancels it while no Execute call is blocked.
Cancel ==
  /\ pc # "done"
  /\ ctx.cancellable
  /\ ~ctx.cancelled
  /\ ctx' = [ctx EXCEPT !.cancelled = TRUE]
  /\ UNCHANGED <<file, report, pc, bi, actions, ai, ri, result, calls, effects,
                 now, last, pureVars>>

NextTimed == Next \/ Cancel

SpecTimed == InitTimed /\ [][NextTimed]_vars

(***************************************************************************)
(* buildActions alone, over the wider set of entries.  pc = "run" is its   *)
(* return of (actions, nil); pc = "done" its return of (nil, err).         *)
(***************************************************************************)
InitFactory ==
  /\ InitRun(Files(FactoryEntries), {Background})
  /\ report = <<>>

NextFactory == ReadConfig \/ BuildEntry \/ BuildDone

SpecFactory == InitFactory /\ [][NextFactory]_vars

(***************************************************************************)
(* extractCREID alone, over ExtractEvents.                                 *)
(***************************************************************************)
InitExtract ==
  /\ file = Unreadable
  /\ report = <<>>
  /\ pc = "extract"
  /\ bi = 0
  /\ actions = <<>>
  /\ ai = 0
  /\ ri = 0
  /\ result = Pending
  /\ calls = <<>>
  /\ effects = <<>>
  /\ now = 0
  /\ ctx = Background
  /\ last = <<>>
  /\ ev \in ExtractEvents
  /\ creID = <<>>
  /\ tpl = TmplEmpty
  /\ rendered = <<>>
  /\ IdleConfig
  /\ IdleCopy

ExtractCREID ==
  /\ pc = "extract"
  /\ creID = <<>>
  /\ creID' = <<extractCREID(ev)>>
  /\ UNCHANGED <<runVars, ev, tpl, rendered, configVars, copyVars>>

NextExtract == ExtractCREID

SpecExtract == InitExtract /\ [][NextExtract]_vars

(***************************************************************************)
(* Rendering alone: a template text is parsed and executed against an      *)
(* event, as the constructors and the Execute methods do it.               *)
(***************************************************************************)
RenderTemplates == {TmplEmpty, TmplText, TmplField, TmplReason, TmplArity}

RenderEvents ==
  {Event(cre, id, reason) :
     cre \in {Absent, MapV([id |-> Str("a1"), ID |-> Absent])},
     id \in {Absent, Str("a2")},
     reason \in {Absent, NilAny, Str("X"), Str(""), Num(7)}}

InitRender ==
  /\ file = Unreadable
  /\ report = <<>>
  /\ pc = "render"
  /\ bi = 0
  /\ actions = <<>>
  /\ ai = 0
  /\ ri = 0
  /\ result = Pending
  /\ calls = <<>>
  /\ effects = <<>>
  /\ now = 0
  /\ ctx = Background
  /\ last = <<>>
  /\ ev \in RenderEvents
  /\ creID = <<>>
  /\ tpl \in RenderTemplates
  /\ rendered = <<>>
  /\ IdleConfig
  /\ IdleCopy

\* t, err := template.New(..).Funcs(funcMap()).Parse(text), and then
\* executeTemplate(&out, t, cre)
Render ==
  /\ pc = "render"
  /\ rendered = <<>>
  /\ LET t == Parse(tpl) IN
     rendered' = <<IF t.err # NoErr THEN [err |-> t.err, out |-> ""]
                   ELSE executeTemplate(t.t, ev)>>
  /\ UNCHANGED <<runVars, ev, creID, tpl, configVars, copyVars>>

NextRender == Render

SpecRender == InitRender /\ [][NextRender]_vars

(***************************************************************************)
(* LoadConfig(dir, file, opts...) and ReadConfig(rd), step by step: the    *)
(* stat of the path, the open of the file, the read of the whole reader    *)
(* and the decoding of the YAML.  Durations are in seconds.  A returned    *)
(* pair of a Config pointer and an error is [cfg, err], cfg being <<>> for *)
(* nil.                                                                    *)
(***************************************************************************)
MaxOpts == 2

\* The windows given through WithWindow.
Windows == {0, 3, 10}

\* The zero value of Config (the fields the model follows).
ZeroConfig ==
  [TimestampRegexes |-> <<>>, Window |-> 0, Skip |-> 0, DataSources |-> ""]

\* timez.Defaults, the built-in timestamp formats of the log matcher.
TimezDefaults ==
  <<[Pattern |-> "^(\\d{4}-\\d{2}-\\d{2}T\\S+)", Format |-> "rfc3339"],
    [Pattern |-> "^(\\d{10,19})", Format |-> "epochany"]>>

\* parseOpts: every option is applied, in order, to a zero optsT, and an
\* option made by WithWindow(w) sets window to w.
RECURSIVE applyOpts(_, _)
applyOpts(o, os) ==
  IF os = <<>> THEN o
  ELSE applyOpts([o EXCEPT !.window = os[1]], Tail(os))

parseOpts_First(os) == [window |-> IF os = <<>> THEN 0 ELSE os[1]]

parseOpts(os) == applyOpts([window |-> 0], os)

DefaultConfig(os) ==
  [ZeroConfig EXCEPT
     !.Window = parseOpts(os).window,
     !.TimestampRegexes =
        [i \in 1..Len(TimezDefaults) |->
           [Pattern |-> TimezDefaults[i].Pattern,
            Format |-> TimezDefaults[i].Format]]]

\* The contents of a configuration file of the model.
DataEmpty == ""
DataWindow == "window: 2s"
DataFull ==
  "window: 5s\nskip: 10\ndataSources: test-source\ntimestamps:\n  - pattern: test-pattern\n    format: test-format"
DataInvalid == "invalid: yaml: content: [[["
DataWrongType == "skip: ten"
Datas == {DataEmpty, DataWindow, DataFull, DataInvalid, DataWrongType}

\* yaml.Unmarshal(data, &config): [err, cfg]
Unmarshal(data) ==
  CASE data = DataEmpty -> [err |-> NoErr, cfg |-> ZeroConfig]
    [] data = DataWindow ->
         [err |-> NoErr, cfg |-> [ZeroConfig EXCEPT !.Window = 2]]
    [] data = DataFull ->
         [err |-> NoErr,
          cfg |-> [TimestampRegexes |->
                     <<[Pattern |-> "test-pattern", Format |-> "test-format"]>>,
                   Window |-> 5, Skip |-> 10, DataSources |-> "test-source"]]
    [] data = DataWrongType ->
         [err |-> Err("yaml", "cannot unmarshal !!str into int"),
          cfg |-> ZeroConfig]
    [] OTHER -> [err |-> Err("yaml", "mapping values are not allowed"),
                 cfg |-> ZeroConfig]

Ret(cfg, err) == [cfg |-> cfg, err |-> err]

InitConfig ==
  /\ file = Unreadable
  /\ report = <<>>
  /\ pc \in {"cfg_stat", "cfg_read"}
  /\ bi = 0
  /\ actions = <<>>
  /\ ai = 0
  /\ ri = 0
  /\ result = Pending
  /\ calls = <<>>
  /\ effects = <<>>
  /\ now = 0
  /\ ctx = Background
  /\ last = <<>>
  /\ ev = NoEvent
  /\ creID = <<>>
  /\ tpl = TmplEmpty
  /\ rendered = <<>>
  /\ opts \in SeqsUpTo(Windows, MaxOpts)
  /\ disk \in Datas
  /\ sys = <<>>
  /\ loaded = <<>>
  /\ IdleCopy

\* What LoadConfig does with the result st of os.Stat: go on to open the
\* file, return the default configuration, or return the error.
afterStat(st, os) ==
  CASE st = "ok" -> <<>>
    [] st = "notexist" -> <<Ret(<<DefaultConfig(os)>>, NoErr)>>
    [] OTHER -> <<Ret(<<>>, Err("stat", st))>>

\* _, err := os.Stat(spec) and the switch on err
LoadConfigStat ==
  /\ pc = "cfg_stat"
  /\ \E st \in {"ok", "notexist", "permission denied"} :
       /\ sys' = Append(sys, <<"stat", st>>)
       /\ loaded' = afterStat(st, opts)
       /\ pc' = IF afterStat(st, opts) = <<>> THEN "cfg_open" ELSE "cfg_done"
  /\ UNCHANGED <<dispatchVars, ev, creID, tpl, rendered, opts, disk, copyVars>>

\* What ReadConfig returns after yaml.Unmarshal returned u.
afterUnmarshal_KeepsConfig(u) == Ret(<<u.cfg>>, u.err)

afterUnmarshal(u) ==
  IF u.err # NoErr THEN Ret(<<>>, u.err) ELSE Ret(<<u.cfg>>, NoErr)

\* fh, err := os.OpenFile(spec, os.O_RDONLY, 0644)
LoadConfigOpen ==
  /\ pc = "cfg_open"
  /\ \E st \in {"ok", "notexist", "permission denied"} :
       /\ sys' = Append(sys, <<"open", st>>)
       /\ IF st = "ok"
          THEN pc' = "cfg_read" /\ UNCHANGED loaded
          ELSE pc' = "cfg_done" /\ loaded' = <<Ret(<<>>, Err("open", st))>>
  /\ UNCHANGED <<dispatchVars, ev, creID, tpl, rendered, opts, disk, copyVars>>

\* data, err := io.ReadAll(rd)
ReadConfigReadAll ==
  /\ pc = "cfg_read"
  /\ \E st \in {"ok", "invalid argument"} :
       /\ sys' = Append(sys, <<"read", st>>)
       /\ IF st = "ok"
          THEN pc' = "cfg_unmarshal" /\ UNCHANGED loaded
          ELSE pc' = "cfg_done" /\ loaded' = <<Ret(<<>>, Err("read", st))>>
  /\ UNCHANGED <<dispatchVars, ev, creID, tpl, rendered, opts, disk, copyVars>>

\* yaml.Unmarshal(data, &config) and the return of ReadConfig
ReadConfigUnmarshal ==
  /\ pc = "cfg_unmarshal"
  /\ sys' = Append(sys, <<"unmarshal",
                          IF Unmarshal(disk).err = NoErr THEN "ok"
                          ELSE Unmarshal(disk).err.detail>>)
  /\ loaded' = <<afterUnmarshal(Unmarshal(disk))>>
  /\ pc' = "cfg_done"
  /\ UNCHANGED <<dispatchVars, ev, creID, tpl, rendered, opts, disk, copyVars>>

NextConfig ==
  LoadConfigStat \/ LoadConfigOpen \/ ReadConfigReadAll \/ ReadConfigUnmarshal

SpecConfig == InitConfig /\ [][NextConfig]_vars

(***************************************************************************)
(* CopyFile(src, dst), one system call per step.  fs maps a path to <<>>   *)
(* (no file) or to <<[content, mode]>>; fs0 is fs at the call.  Every      *)
(* system call can fail.  The paths are plain files; src may be dst or a   *)
(* temporary path.                                                         *)
(***************************************************************************)
\* tmp := fmt.Sprintf("%s.tmp", dst)
Tmp(dst) == dst \o ".tmp"

DstPaths == {"a", "b"}
Paths == DstPaths \cup {Tmp(d) : d \in DstPaths}

File(content, mode) == <<[content |-> content, mode |-> mode]>>
NoFile == <<>>
FileStates == {NoFile, File("x", "0644"), File("y", "0755")}

\* The mode of a file that os.Create makes (0666 under the usual umask).
CreatedMode == "0644"

InitCopy ==
  /\ file = Unreadable
  /\ report = <<>>
  /\ pc = "cp_open"
  /\ bi = 0
  /\ actions = <<>>
  /\ ai = 0
  /\ ri = 0
  /\ result = Pending
  /\ calls = <<>>
  /\ effects = <<>>
  /\ now = 0
  /\ ctx = Background
  /\ last = <<>>
  /\ ev = NoEvent
  /\ creID = <<>>
  /\ tpl = TmplEmpty
  /\ rendered = <<>>
  /\ IdleConfig
  /\ fs \in [Paths -> FileStates]
  /\ fs0 = fs
  /\ srcPath \in Paths
  /\ dstPath \in DstPaths
  /\ copied = <<>>

\* A step of CopyFile that returns err.
CopyReturns(err) == pc' = "cp_done" /\ copied' = <<err>>

copyFrame == <<dispatchVars, ev, creID, tpl, rendered, configVars, fs0,
               srcPath, dstPath>>

\* srcFile, err := os.Open(src)
CopyOpen ==
  /\ pc = "cp_open"
  /\ \E ok \in BOOLEAN :
       IF fs[srcPath] = NoFile \/ ~ok
       THEN CopyReturns(Err("open", srcPath))
       ELSE pc' = "cp_create" /\ UNCHANGED copied
  /\ UNCHANGED <<copyFrame, fs>>

\* dstFile, err := os.Create(tmp): the file is made, or emptied when it is
\* there already.
CopyCreate ==
  /\ pc = "cp_create"
  /\ \E ok \in BOOLEAN :
       IF ~ok
       THEN CopyReturns(Err("create", Tmp(dstPath))) /\ UNCHANGED fs
       ELSE /\ fs' = [fs EXCEPT ![Tmp(dstPath)] =
                        IF @ = NoFile THEN File("", CreatedMode)
                        ELSE File("", @[1].mode)]
            /\ pc' = "cp_copy"
            /\ UNCHANGED copied
  /\ UNCHANGED copyFrame

\* _, err = io.Copy(dstFile, srcFile): the bytes srcFile holds now go to the
\* temporary file; a failure leaves what was written so far.
CopyCopy ==
  /\ pc = "cp_copy"
  /\ \E ok \in BOOLEAN :
       IF ~ok
       THEN CopyReturns(Err("copy", Tmp(dstPath))) /\ UNCHANGED fs
       ELSE /\ fs' = [fs EXCEPT ![Tmp(dstPath)] =
                        File(fs[srcPath][1].content, @[1].mode)]
            /\ pc' = "cp_close"
            /\ UNCHANGED copied
  /\ UNCHANGED copyFrame

\* err = dstFile.Close()
CopyClose ==
  /\ pc = "cp_close"
  /\ \E ok \in BOOLEAN :
       IF ~ok THEN CopyReturns(Err("close", Tmp(dstPath)))
       ELSE pc' = "cp_stat" /\ UNCHANGED copied
  /\ UNCHANGED <<copyFrame, fs>>

\* srcInfo, err := srcFile.Stat()
CopyStat ==
  /\ pc = "cp_stat"
  /\ \E ok \in BOOLEAN :
       IF ~ok THEN CopyReturns(Err("stat", srcPath))
       ELSE pc' = "cp_chmod" /\ UNCHANGED copied
  /\ UNCHANGED <<copyFrame, fs>>

\* err = os.Chmod(tmp, srcInfo.Mode())
CopyChmod ==
  /\ pc = "cp_chmod"
  /\ \E ok \in BOOLEAN :
       IF ~ok
       THEN CopyReturns(Err("chmod", Tmp(dstPath))) /\ UNCHANGED fs
       ELSE /\ fs' = [fs EXCEPT ![Tmp(dstPath)] =
                        File(@[1].content, fs[srcPath][1].mode)]
            /\ pc' = "cp_rename"
            /\ UNCHANGED copied
  /\ UNCHANGED copyFrame

\* err = os.Rename(tmp, dst), and return nil
CopyRename ==
  /\ pc = "cp_rename"
  /\ \E ok \in BOOLEAN :
       IF ~ok
       THEN CopyReturns(Err("rename", dstPath)) /\ UNCHANGED fs
       ELSE /\ fs' = [fs EXCEPT ![dstPath] = fs[Tmp(dstPath)],
                                ![Tmp(dstPath)] = NoFile]
            /\ CopyReturns(NoErr)
  /\ UNCHANGED copyFrame

NextCopy ==
  CopyOpen \/ CopyCreate \/ CopyCopy \/ CopyClose \/ CopyStat \/ CopyChmod
    \/ CopyRename

SpecCopy == InitCopy /\ [][NextCopy]_vars

(***************************************************************************)
(* Properties.                                                             *)
(***************************************************************************)
\* The action and the event of the n-th Execute call, and its side effects.
CallAction(n) == actions[calls[n].a + 1]
CallEntry(n) == file.Actions[calls[n].a + 1]
CallEvent(n) == report[calls[n].r + 1]
RECURSIVE EffectsOf(_, _)
EffectsOf(fx, n) ==
  IF fx = <<>> THEN <<>>
  ELSE IF fx[1].call = n THEN <<fx[1].fx>> \o EffectsOf(Tail(fx), n)
       ELSE EffectsOf(Tail(fx), n)

\* C1: Execute calls happen in action-major order: the n-th call of a run
\* over M records is action (n-1) div M on record (n-1) mod M, so an action
\* meets the records in order and only after every earlier action has met
\* all of them.
C1_ActionMajorOrder ==
  \A n \in 1..Len(calls) :
    /\ calls[n].a = (n - 1) \div Len(report)
    /\ calls[n].r = (n - 1) % Len(report)

C1_Witness ==
  /\ Len(actions) = 2
  /\ Len(report) = 2
  /\ Len(calls) = 4
  /\ calls[3].a = 1
  /\ calls[3].r = 0

\* C2: fail-fast: an Execute call that returned an error is the last call of
\* the run, and Runbook has returned exactly that error.
C2_FailFast ==
  \A n \in 1..Len(calls) :
    calls[n].err # NoErr =>
      /\ n = Len(calls)
      /\ pc = "done"
      /\ result = calls[n].err

C2_Witness ==
  /\ Len(actions) = 2
  /\ Len(report) = 2
  /\ Len(calls) = 2
  /\ calls[1].err = NoErr
  /\ calls[2].a = 0
  /\ calls[2].r = 1
  /\ calls[2].err # NoErr
  /\ pc = "done"

\* C3: when Runbook returns success, every (action, record) pair was
\* executed exactly once and every call returned success; with no action or
\* no record there was no call.
C3_SuccessMeansAllExecuted ==
  (pc = "done" /\ result = NoErr) =>
    /\ Len(actions) = Len(file.Actions)
    /\ Len(calls) = Len(actions) * Len(report)
    /\ \A i \in 0..(Len(actions) - 1) : \A j \in 0..(Len(report) - 1) :
         Cardinality({n \in 1..Len(calls) :
                        calls[n].a = i /\ calls[n].r = j}) = 1
    /\ \A n \in 1..Len(calls) : calls[n].err = NoErr

C3_Witness ==
  /\ pc = "done"
  /\ result = NoErr
  /\ Len(actions) = 2
  /\ Len(report) = 2
  /\ \E n \in 1..Len(calls) : ~calls[n].invoked

\* C4: a filtered action with a compiled pattern runs its inner action if
\* and only if the record's identifier is non-empty and matches the pattern;
\* when it runs, the call's error and side effects are those of the inner
\* action; otherwise the call returns success, has no side effect, and the
\* run does not end in an error with it.
C4_FilterDelegatesIffMatch ==
  \A n \in 1..Len(calls) :
    LET a == CallAction(n)
        e == CallEvent(n)
    IN (a.kind = "filtered" /\ a.pattern # <<>>) =>
         LET id == extractCREID(e)
             m == id # "" /\ MatchString(a.pattern[1], id)
         IN /\ calls[n].invoked <=> m
            /\ m => \E o \in OutcomesOf(a, CallCtx(ctx, 0)) :
                      LET r == concreteExecute(CallCtx(ctx, 0), a.inner, e, o)
                      IN calls[n].err = r.err /\ EffectsOf(effects, n) = r.fx
            /\ ~m => /\ calls[n].err = NoErr
                     /\ EffectsOf(effects, n) = <<>>
                     /\ ~(n = Len(calls) /\ pc = "done" /\ result # NoErr)

C4_Witness ==
  /\ \E n \in 1..Len(calls) :
       /\ CallAction(n).kind = "filtered"
       /\ CallAction(n).pattern = <<".*">>
       /\ extractCREID(CallEvent(n)) = ""
       /\ ~calls[n].invoked
  /\ \E n \in 1..Len(calls) :
       /\ CallAction(n).kind = "filtered"
       /\ calls[n].invoked
       /\ EffectsOf(effects, n) # <<>>

\* C5: an entry with no (or an empty) filter pattern runs its underlying
\* action on every record it is executed on, whatever the record holds and
\* whether or not it has an identifier.
C5_NoPatternAlwaysRuns ==
  \A n \in 1..Len(calls) :
    CallEntry(n).Regex = "" =>
      /\ calls[n].invoked
      /\ \E o \in OutcomesOf(CallAction(n), CallCtx(ctx, 0)) :
           LET r == concreteExecute(CallCtx(ctx, 0), CallAction(n),
                                    CallEvent(n), o) IN
           calls[n].err = r.err /\ EffectsOf(effects, n) = r.fx

C5_Witness ==
  \E n \in 1..Len(calls) :
    /\ CallEntry(n).Regex = ""
    /\ extractCREID(CallEvent(n)) = ""
    /\ calls[n].invoked
    /\ EffectsOf(effects, n) # <<>>

\* The string that `cre` carries under `name`, when cre is a map holding a
\* string there or a struct (or a pointer to one) with a string field of
\* that name; <<>> when it carries none.
CreString(cre, name) ==
  IF cre.t = "map"
  THEN IF IsString(cre.m[name]) THEN <<cre.m[name].s>> ELSE <<>>
  ELSE IF cre.t = "struct"
  THEN IF name \in DOMAIN cre.f /\ IsString(cre.f[name])
       THEN <<cre.f[name].s>> ELSE <<>>
  ELSE IF cre.t = "ptr" /\ cre.p # <<>> /\ cre.p[1].t = "struct"
  THEN IF name \in DOMAIN cre.p[1].f /\ IsString(cre.p[1].f[name])
       THEN <<cre.p[1].f[name].s>> ELSE <<>>
  ELSE <<>>

MissingRequired(c) ==
  \/ /\ c.Type = "slack"
     /\ c.Slack # <<>>
     /\ (c.Slack[1].WebhookURL = "" \/ c.Slack[1].MessageTemplate = "")
  \/ /\ c.Type = "jira"
     /\ c.Jira # <<>>
     /\ \/ c.Jira[1].WebhookURL = ""
        \/ c.Jira[1].SummaryTemplate = ""
        \/ c.Jira[1].ProjectKey = ""
  \/ /\ c.Type = "exec"
     /\ c.Exec # <<>>
     /\ c.Exec[1].Path = ""

\* C7: when any entry of the file lacks a required field of its declared
\* type, buildActions never returns an action list: it cannot get past that
\* entry, and when it returns it returns an error and a nil list.
C7_MissingFieldFailsBuild ==
  (file.status = "ok"
     /\ \E k \in 1..Len(file.Actions) : MissingRequired(file.Actions[k])) =>
    /\ pc # "run"
    /\ \A k \in 1..Len(actions) : ~MissingRequired(file.Actions[k])
    /\ pc = "done" => (result # NoErr /\ actions = <<>>)

C7_Witness ==
  /\ pc = "done"
  /\ Len(file.Actions) = 2
  /\ bi = 1
  /\ ~MissingRequired(file.Actions[1])
  /\ MissingRequired(file.Actions[2])
  /\ file.Actions[2].Type = "exec"
  /\ result.kind = "required_field"
  /\ actions = <<>>

\* The section of an entry that its type names: <<>> when it is missing or
\* the type is unknown.
KnownTypes == {"slack", "jira", "exec"}
MatchingSection(c) ==
  CASE c.Type = "slack" -> c.Slack
    [] c.Type = "jira" -> c.Jira
    [] c.Type = "exec" -> c.Exec
    [] OTHER -> <<>>
SectionCount(c) == Len(c.Slack) + Len(c.Jira) + Len(c.Exec)

\* buildActions returned an error at the entry of index bi.
BuildFailedAtEntry ==
  pc = "done" /\ file.status = "ok" /\ calls = <<>> /\ result # NoErr

C9_BuildErrorsNameIndex ==
  BuildFailedAtEntry => result.pos = <<bi>>

\* C10: once buildActions has succeeded, no Execute call fails because a
\* template does not parse.
C10_NoParseErrorAtDispatch ==
  \A n \in 1..Len(calls) : calls[n].err.kind # "template_parse"

\* The entry at position k (1-based) is one buildActions refuses.
InvalidEntry(k) == buildEntry(file.Actions[k], k - 1).err # NoErr

\* C11: buildActions takes the entries in order and is all-or-nothing: the
\* entries it has gone past were all valid, it never returns a list shorter
\* than the file, and when an entry is invalid it returns nil and the error
\* of the lowest-indexed invalid entry, having constructed nothing after it.
C11_FirstErrorAllOrNothing ==
  file.status = "ok" =>
    /\ \A k \in 1..bi : ~InvalidEntry(k)
    /\ pc = "build" => Len(actions) = bi
    /\ pc = "run" => (Len(actions) = Len(file.Actions) /\ result = Pending)
    /\ (pc = "done" /\ calls = <<>> /\ result # NoErr) =>
         /\ actions = <<>>
         /\ bi < Len(file.Actions)
         /\ InvalidEntry(bi + 1)
         /\ result = buildEntry(file.Actions[bi + 1], bi).err

C11_Witness ==
  /\ pc = "done"
  /\ Len(file.Actions) = 2
  /\ bi = 0
  /\ InvalidEntry(1)
  /\ InvalidEntry(2)
  /\ result.kind = "unknown_type"
  /\ file.Actions[2].Type = "slack"
  /\ actions = <<>>

\* The concrete action behind the k-th action of the list.
Concrete(a) == IF a.kind = "filtered" THEN a.inner ELSE a

\* The concrete action a holds the configuration of entry c's section (the
\* secret of a jira action apart, which construction resolves).
BuiltFrom(a, c) ==
  CASE c.Type = "slack" -> a.cfg = c.Slack[1]
    [] c.Type = "jira" ->
         [a.cfg EXCEPT !.Secret = ""] = [c.Jira[1] EXCEPT !.Secret = ""]
    [] c.Type = "exec" -> a.cfg = c.Exec[1]
    [] OTHER -> FALSE

\* C12: on success the list holds one action per entry, in the order of the
\* entries; the k-th action is a filter around the entry's action, with the
\* entry's pattern, exactly when the entry has a non-empty pattern; a file
\* with a pattern that does not compile never yields a list.
C12_OneActionPerEntryInOrder ==
  (file.status = "ok" /\ pc = "run") =>
    /\ Len(actions) = Len(file.Actions)
    /\ \A k \in 1..Len(actions) :
         LET c == file.Actions[k] IN
         /\ (actions[k].kind = "filtered") <=> (c.Regex # "")
         /\ actions[k].kind = "filtered" => actions[k].pattern = <<c.Regex>>
         /\ Concrete(actions[k]).kind = c.Type
         /\ BuiltFrom(Concrete(actions[k]), c)
         /\ RegexpCompiles(c.Regex)

C12_Witness ==
  /\ pc = "run"
  /\ Len(actions) = 2
  /\ actions[1].kind = "filtered"
  /\ actions[1].pattern = <<"^a">>
  /\ actions[1].inner.kind = "slack"
  /\ actions[2].kind = "exec"

\* C13: the secret of a built jira action is the configured secret when one
\* is configured, whatever the environment holds, and otherwise the value
\* of the variable secret_env names; it is never empty, and an entry that is
\* sound but for an empty resolved secret is refused for that.
C13_SecretResolution ==
  file.status = "ok" =>
    /\ \A k \in 1..Len(actions) :
         file.Actions[k].Type = "jira" =>
           LET j == file.Actions[k].Jira[1]
               secret == Concrete(actions[k]).cfg.Secret
           IN /\ j.Secret # "" => secret = j.Secret
              /\ j.Secret = "" => secret = Getenv(j.SecretEnv)
              /\ secret # ""
    /\ (pc = "done" /\ result # NoErr /\ calls = <<>>
          /\ file.Actions[bi + 1].Type = "jira"
          /\ file.Actions[bi + 1].Jira # <<>>) =>
         LET j == file.Actions[bi + 1].Jira[1] IN
         (/\ ~MissingRequired(file.Actions[bi + 1])
          /\ Parse(j.SummaryTemplate).err = NoErr
          /\ Parse(j.DescriptionTemplate).err = NoErr
          /\ (j.Secret = "" /\ Getenv(j.SecretEnv) = ""))
           => result.kind = "secret_missing"

C13_Witness ==
  /\ pc = "run"
  /\ Len(actions) = 2
  /\ file.Actions[1].Type = "jira"
  /\ file.Actions[1].Jira[1].Secret = "abc123"
  /\ file.Actions[1].Jira[1].SecretEnv = "JIRA_TOKEN"
  /\ actions[1].cfg.Secret = "abc123"
  /\ file.Actions[2].Type = "jira"
  /\ file.Actions[2].Jira[1].Secret = ""
  /\ actions[2].cfg.Secret = "envtok"

\* The latest Execute call: its number, its action, what the world did
\* during it, and whether it is a webhook (slack or jira) call.
LastCall == Len(calls)
LastOutcome == last[1].o
IsWebhook(a) == ConcreteKind(a) \in {"slack", "jira"}

\* C14: a webhook action's Execute returns success if and only if its HTTP
\* exchange completes with a status code below 300; a network error or a
\* status of 300 or more is an error, and for a status of 300 or more the
\* error text is made of the action's name, the status and the response
\* body.
C14_WebhookStatusDecides ==
  (calls # <<>> /\ IsWebhook(CallAction(LastCall))
     /\ calls[LastCall].invoked) =>
    LET c == calls[LastCall]
        o == LastOutcome
        sent == EffectsOf(effects, LastCall) # <<>>
        completed == sent /\ o.k = "status" /\ o.dur <= ClientTimeout
    IN /\ c.err = NoErr <=> (completed /\ o.code < 300)
       /\ (sent /\ o.k = "neterr") => c.err.kind = "http"
       /\ (completed /\ o.code >= 300) =>
            /\ c.err.kind = "status"
            /\ c.err.detail = ConcreteKind(CallAction(LastCall))
                                 \o " post failed: " \o ToString(o.code)
                                 \o " - " \o o.body

C14_Witness ==
  /\ calls # <<>>
  /\ IsWebhook(CallAction(LastCall))
  /\ LastOutcome.code = 500
  /\ LastOutcome.body = "boom"
  /\ calls[LastCall].err.detail = "jira post failed: 500 - boom"
  /\ \E n \in 1..(LastCall - 1) :
       IsWebhook(CallAction(n)) /\ calls[n].invoked /\ calls[n].err = NoErr

\* C15: every HTTP request of an issue-tracker (jira) action carries the
\* token header, set to the secret resolved at construction (the configured
\* secret, or else the value of the environment variable named by
\* secret_env), and that token is never empty.
C15_JiraRequestsCarryToken ==
  \A k \in 1..Len(effects) :
    LET c == CallEntry(effects[k].call) IN
    (c.Type = "jira" /\ effects[k].fx.kind = "http") =>
      /\ effects[k].fx.token =
           <<IF c.Jira[1].Secret # "" THEN c.Jira[1].Secret
             ELSE Getenv(c.Jira[1].SecretEnv)>>
      /\ effects[k].fx.token # <<"">>

C15_Witness ==
  /\ \E k \in 1..Len(effects) :
       /\ CallEntry(effects[k].call).Type = "jira"
       /\ CallEntry(effects[k].call).Jira[1].Secret = ""
       /\ effects[k].fx.token = <<"envtok">>
  /\ \E k \in 1..Len(effects) :
       /\ CallEntry(effects[k].call).Type = "jira"
       /\ effects[k].fx.token = <<"abc123">>

\* The description and the summary that the jira entry c renders for the
\* event e.
RenderedDescription(c, e) ==
  executeTemplate(Parse(c.Jira[1].DescriptionTemplate).t, e).out
RenderedSummary(c, e) ==
  executeTemplate(Parse(c.Jira[1].SummaryTemplate).t, e).out

\* C16: the payload of every issue-tracker request has as description a
\* document of type doc and version 1 with exactly one paragraph holding
\* exactly one text node, whose text is the rendered description (also when
\* it is empty); the payload carries the configured project key, the
\* rendered summary and the issue type Bug.
C16_DescriptionIsOneParagraph ==
  \A k \in 1..Len(effects) :
    LET c == CallEntry(effects[k].call)
        e == CallEvent(effects[k].call)
        p == effects[k].fx.payload
    IN (c.Type = "jira" /\ effects[k].fx.kind = "http") =>
         /\ p.description.type = "doc"
         /\ p.description.version = 1
         /\ Len(p.description.content) = 1
         /\ p.description.content[1].type = "paragraph"
         /\ Len(p.description.content[1].content) = 1
         /\ p.description.content[1].content[1].type = "text"
         /\ p.description.content[1].content[1].text = RenderedDescription(c, e)
         /\ p.project.key = c.Jira[1].ProjectKey
         /\ p.summary = RenderedSummary(c, e)
         /\ p.issuetype.name = "Bug"

C16_Witness ==
  /\ \E k \in 1..Len(effects) :
       /\ CallEntry(effects[k].call).Type = "jira"
       /\ effects[k].fx.payload.description.content[1].content[1].text = ""
  /\ \E k \in 1..Len(effects) :
       /\ CallEntry(effects[k].call).Type = "jira"
       /\ effects[k].fx.payload.description.content[1].content[1].text
            = "Reason: disk full"
       /\ effects[k].fx.payload.project.key = "PREQ"
       /\ effects[k].fx.payload.summary = "CRE fired"

\* The positions of the actions built from an entry of a webhook type with
\* no filter pattern, and the side effects that are HTTP requests of the
\* calls of those actions.
UnfilteredWebhooks ==
  {i \in 1..Len(actions) :
     file.Actions[i].Type \in {"slack", "jira"} /\ file.Actions[i].Regex = ""}
UnfilteredPosts ==
  {k \in 1..Len(effects) :
     /\ effects[k].fx.kind = "http"
     /\ calls[effects[k].call].a + 1 \in UnfilteredWebhooks}

\* C17: no retry and no batching.  In a run each (action, record) pair is
\* executed at most once; a webhook call sends at most one request, whose
\* payload is the rendering of that call's record, and an exec call starts
\* at most one process; a run that succeeds with N unfiltered webhook
\* actions and M records has sent exactly N*M requests for them.
C17_NoRetryNoBatching ==
  /\ \A m, n \in 1..Len(calls) :
       (calls[m].a = calls[n].a /\ calls[m].r = calls[n].r) => m = n
  /\ \A n \in 1..Len(calls) :
       LET fx == EffectsOf(effects, n) IN
       /\ Len(fx) <= 1
       /\ Len(fx) = 1 =>
            /\ fx[1].kind = IF IsWebhook(CallAction(n)) THEN "http" ELSE "process"
            /\ CallEntry(n).Type = "slack" =>
                 fx[1].payload.text
                   = executeTemplate(Parse(CallEntry(n).Slack[1].MessageTemplate).t,
                                     CallEvent(n)).out
            /\ CallEntry(n).Type = "exec" => fx[1].payload = Marshal(CallEvent(n))
  /\ (pc = "done" /\ result = NoErr) =>
       Cardinality(UnfilteredPosts) = Cardinality(UnfilteredWebhooks) * Len(report)

C17_Witness ==
  /\ pc = "done"
  /\ result = NoErr
  /\ Cardinality(UnfilteredWebhooks) = 2
  /\ Len(actions) = 2
  /\ Len(report) = 2
  /\ Len(effects) = 4
  /\ file.Actions[1].Type = "slack"
  /\ report[1] # report[2]

\* C18: a template that is only the accessor of a field renders, against a
\* record where the field is the string X, exactly X; against a record that
\* lacks the field it renders the empty text, without an error.
C18_FieldRoundTrip ==
  (rendered # <<>> /\ tpl = TmplField) =>
    /\ IsString(ev.Reason) =>
         rendered[1] = [err |-> NoErr, out |-> ev.Reason.s]
    /\ ev.Reason = Absent => rendered[1] = [err |-> NoErr, out |-> ""]

\* The time the latest Execute call started and ended, and the time by
\* which the request of a webhook call that starts at time t has to be
\* over: t plus the 5 seconds of the call, or the deadline of the context
\* when that is earlier.
LastStart == last[1].cx.at
LastEnd == LastStart + last[1].took
WebhookBound(t) ==
  IF ctx.deadline = <<>> THEN t + 5
  ELSE IF ctx.deadline[1] < t + 5 THEN ctx.deadline[1] ELSE t + 5

\* C19: each webhook call has its own 5 seconds, counted from the start of
\* that call, whatever the outer context.  A request that would run past
\* the earlier of (start + 5) and the context's deadline is aborted at that
\* time with an error, a cancellation aborts it earlier, and a request
\* that is answered before gets its answer, however late in the run the
\* call starts.
C19_PerCallTimeout ==
  (calls # <<>> /\ IsWebhook(CallAction(LastCall))
     /\ EffectsOf(effects, LastCall) # <<>>) =>
    LET o == LastOutcome
        c == calls[LastCall]
        b == WebhookBound(LastStart)
    IN /\ LastEnd <= b
       /\ now = LastEnd
       /\ LastStart + o.dur > b => (LastEnd = b /\ c.err.kind = "http")
       /\ LastStart + o.dur <= b =>
            /\ LastEnd = LastStart + o.dur
            /\ o.k = "status" => c.err.kind \in {"nil", "status"}
            /\ o.k = "cancel" => c.err.kind = "http"

C19_Witness ==
  /\ calls # <<>>
  /\ IsWebhook(CallAction(LastCall))
  /\ EffectsOf(effects, LastCall) # <<>>
  /\ LastStart > 5
  /\ LastOutcome.dur > 5
  /\ LastEnd = LastStart + 5
  /\ calls[LastCall].err.kind = "http"

\* C20: when the context is cancelled during an Execute call, the request
\* or the process of that call is aborted, the call returns an error, and
\* the run ends with that error: the call is the last one, and no request
\* is sent and no process started after it.  A call that starts when the
\* context is already done sends no request and starts no process.
C20_CancelEndsRun ==
  /\ \A n \in 1..Len(calls) :
       calls[n].cancel =>
         /\ calls[n].err # NoErr
         /\ n = LastCall
         /\ pc = "done"
         /\ result = calls[n].err
         /\ \A k \in 1..Len(effects) : effects[k].call <= n
         /\ ctx.cancelled
  /\ (calls # <<>> /\ last[1].cx.done) => EffectsOf(effects, LastCall) = <<>>

C20_Witness ==
  /\ calls # <<>>
  /\ calls[LastCall].cancel
  /\ ConcreteKind(CallAction(LastCall)) = "exec"
  /\ EffectsOf(effects, LastCall) # <<>>
  /\ LastCall > 1
  /\ LastCall < Len(actions) * Len(report)
  /\ pc = "done"

\* C21: an exec call starts the configured executable with as many
\* arguments as there are argument templates, the i-th being the rendering
\* of the i-th template against the record, and with the serialization of
\* the whole record on standard input; the call succeeds if and only if the
\* process was started and exited with status 0, and a start failure or a
\* nonzero exit is an error.
C21_ExecArgsStdinAndExit ==
  /\ \A n \in 1..Len(calls) :
       LET fx == EffectsOf(effects, n)
           c == CallEntry(n)
           e == CallEvent(n)
       IN (c.Type = "exec" /\ fx # <<>>) =>
            /\ Len(fx) = 1
            /\ fx[1].kind = "process"
            /\ fx[1].target = c.Exec[1].Path
            /\ Len(fx[1].args) = Len(c.Exec[1].Args)
            /\ \A i \in 1..Len(c.Exec[1].Args) :
                 fx[1].args[i]
                   = executeTemplate(Parse(c.Exec[1].Args[i]).t, e).out
            /\ fx[1].payload
                 = {<<k, e[k]>> : k \in {j \in {"cre", "id", "Reason"} :
                                            e[j] # Absent}}
  /\ (calls # <<>> /\ CallEntry(LastCall).Type = "exec"
        /\ calls[LastCall].invoked) =>
       LET spawned == EffectsOf(effects, LastCall) # <<>>
           o == LastOutcome
       IN /\ calls[LastCall].err = NoErr
               <=> (spawned /\ o.k = "exit" /\ o.code = 0)
          /\ o.k = "spawnerr" => ~spawned

C21_Witness ==
  /\ calls # <<>>
  /\ CallEntry(LastCall).Type = "exec"
  /\ LastOutcome.k = "exit"
  /\ LastOutcome.code = 1
  /\ calls[LastCall].err.kind = "process"
  /\ \E n \in 1..(LastCall - 1) :
       /\ CallEntry(n).Type = "exec"
       /\ calls[n].err = NoErr
       /\ EffectsOf(effects, n)[1].args = <<"CRE fired", "Reason: disk full">>

\* The templates of the entry c, in the order its Execute renders them, and
\* whether rendering one of them against the event e fails.
TemplatesOf(c) ==
  CASE c.Type = "slack" -> <<c.Slack[1].MessageTemplate>>
    [] c.Type = "jira" ->
         <<c.Jira[1].SummaryTemplate, c.Jira[1].DescriptionTemplate>>
    [] c.Type = "exec" -> c.Exec[1].Args
RenderFails(c, e) ==
  \E i \in 1..Len(TemplatesOf(c)) :
    \/ Parse(TemplatesOf(c)[i]).err # NoErr
    \/ executeTemplate(Parse(TemplatesOf(c)[i]).t, e).err # NoErr

Rendered(n) ==
  [k \in 1..Len(EffectsOf(effects, n)) |->
     <<EffectsOf(effects, n)[k].payload, EffectsOf(effects, n)[k].args>>]

\* C23: actions are built once and reused unchanged.  Once the list is
\* built, no step of the run (an Execute call that succeeds, fails or is
\* filtered out included) changes an action's configuration, secret, pattern
\* or templates, the order or content of the list, or a record of the
\* report; and two calls of the same action on equal records that both have
\* a side effect render the same payload and arguments.
C23_BuiltOnceNeverMutated ==
  /\ [][pc = "run" => (actions' = actions /\ report' = report)]_vars
  /\ [](\A m, n \in 1..Len(calls) :
          (calls[m].a = calls[n].a /\ CallEvent(m) = CallEvent(n)
             /\ Rendered(m) # <<>> /\ Rendered(n) # <<>>) =>
            Rendered(m) = Rendered(n))

C23_Witness ==
  /\ pc = "done"
  /\ result = NoErr
  /\ Len(report) = 2
  /\ report[1] = report[2]
  /\ Len(actions) = 2
  /\ actions[1].kind = "exec"
  /\ actions[2].kind = "filtered"
  /\ Len(calls) = 4
  /\ Rendered(1) # <<>>
  /\ Rendered(1) = Rendered(2)

\* The steps of the call that failed, and whether the call was LoadConfig
\* on a path that does not exist.
FailedSteps == {i \in 1..Len(sys) : sys[i][2] # "ok"}
StatSaysNotExist == sys = <<<<"stat", "notexist">>>>

\* C24: LoadConfig on a path where no file exists returns, without an
\* error, the default configuration: its Window is the window given through
\* WithWindow (0 without an option) and its timestamp regexes are the
\* built-in list, which is not empty.
C24_NotExistGivesDefault ==
  StatSaysNotExist =>
    /\ pc = "cfg_done"
    /\ loaded # <<>>
    /\ loaded[1].err = NoErr
    /\ loaded[1].cfg # <<>>
    /\ loaded[1].cfg[1].Window
         = (IF opts = <<>> THEN 0 ELSE opts[Len(opts)])
    /\ loaded[1].cfg[1].TimestampRegexes # <<>>
    /\ Len(loaded[1].cfg[1].TimestampRegexes) = Len(TimezDefaults)
    /\ \A i \in 1..Len(TimezDefaults) :
         /\ loaded[1].cfg[1].TimestampRegexes[i].Pattern = TimezDefaults[i].Pattern
         /\ loaded[1].cfg[1].TimestampRegexes[i].Format = TimezDefaults[i].Format
    /\ loaded[1].cfg[1].Skip = 0

C24_Witness ==
  /\ StatSaysNotExist
  /\ Len(opts) = 2
  /\ opts[1] # opts[2]
  /\ loaded[1].cfg[1].Window = 10
  /\ disk = DataFull

\* C25: LoadConfig and ReadConfig never return a configuration together
\* with an error.  A stat failure other than not-exist, a failure to open
\* the file, a read error and invalid YAML each give an error and a nil
\* configuration; without a failure a configuration and no error are
\* returned; and the default configuration is returned only when the stat
\* says that the file does not exist.
C25_ConfigOrErrorNeverBoth ==
  /\ pc = "cfg_done" <=> loaded # <<>>
  /\ loaded # <<>> =>
       /\ loaded[1].err # NoErr <=> loaded[1].cfg = <<>>
       /\ loaded[1].err # NoErr
            <=> (FailedSteps # {} /\ ~StatSaysNotExist)
       /\ loaded[1].cfg = <<DefaultConfig(opts)>> => StatSaysNotExist
       /\ (loaded[1].err = NoErr /\ ~StatSaysNotExist) =>
            loaded[1].cfg = <<Unmarshal(disk).cfg>>

C25_Witness ==
  /\ pc = "cfg_done"
  /\ Len(sys) = 4
  /\ sys[4] = <<"unmarshal", "cannot unmarshal !!str into int">>
  /\ loaded[1].cfg = <<>>
  /\ loaded[1].err.kind = "yaml"

\* The configuration cannot be built: the file cannot be read or decoded,
\* or one of its entries is refused.
BuildFails ==
  \/ file.status # "ok"
  \/ \E k \in 1..Len(file.Actions) : InvalidEntry(k)

\* C26: Runbook has no side effect before the whole configuration is
\* validated.  While the list is being built nothing is executed; when the
\* build fails for an entry, the last one included, Runbook returns the
\* build error and no Execute call, request or process happens for any
\* action or record; and when a call happens, every entry has been built.
C26_NoEffectBeforeValidation ==
  /\ pc \in {"read", "build"} => (calls = <<>> /\ effects = <<>>)
  /\ BuildFails =>
       /\ calls = <<>>
       /\ effects = <<>>
       /\ pc # "run"
       /\ pc = "done" => (result # NoErr /\ result # Pending)
  /\ calls # <<>> =>
       (~BuildFails /\ Len(actions) = Len(file.Actions))

C26_Witness ==
  /\ pc = "done"
  /\ Len(file.Actions) = 2
  /\ ~InvalidEntry(1)
  /\ file.Actions[1].Type = "exec"
  /\ InvalidEntry(2)
  /\ Len(report) = 2
  /\ result.kind = "required_field"
  /\ calls = <<>>
  /\ effects = <<>>

\* C27: CopyFile is atomic with respect to dst.  Until the final rename it
\* writes only to the temporary path dst.tmp; on every error return dst is
\* exactly what it was before the call; on success dst holds the content
\* and the permission mode that src had.
C27_CopyFileAtomic ==
  /\ copied = <<>> =>
       \A p \in Paths \ {Tmp(dstPath)} : fs[p] = fs0[p]
  /\ (copied # <<>> /\ copied[1] # NoErr) => fs[dstPath] = fs0[dstPath]
  /\ (copied # <<>> /\ copied[1] = NoErr) => fs[dstPath] = fs0[srcPath]
====
